---------------------------- MODULE Spec2Model ----------------------------
(***************************************************************************)
(* The dimensionality-reduction engine of the fraud-article visualizer:    *)
(* SimplePCA and SimpleTSNE of src/src/scripts/visualize_embeddings.py,    *)
(* as a state machine of one Python process (a host that constructs        *)
(* reducers and calls fit_transform on them).                              *)
(*                                                                         *)
(* NumPy's float64 numbers are modelled as binary floating-point numbers   *)
(* of Prec significant bits (mantissa m, exponent e, value m * 2^e) with   *)
(* IEEE's special values NaN, +Inf and -Inf, rounded to nearest after      *)
(* every operation.                                                        *)
(***************************************************************************)
EXTENDS Integers, Sequences, FiniteSets, TLC

(***************************************************************************)
(* Floating point                                                          *)
(***************************************************************************)

\* significant bits kept by the model's floating-point numbers
Prec == 12

\* float64: the largest finite value is below 2^1024
MaxExp2 == 1024

\* float64: a result below 2^-1075 in magnitude rounds to zero
MinExp2 == -1075

NaN == [c |-> "nan", m |-> 0, e |-> 0]
PInf == [c |-> "inf", m |-> 1, e |-> 0]
NInf == [c |-> "inf", m |-> -1, e |-> 0]
F0 == [c |-> "fin", m |-> 0, e |-> 0]

Abs(i) == IF i < 0 THEN -i ELSE i

Sgn(i) == IF i < 0 THEN -1 ELSE IF i > 0 THEN 1 ELSE 0

\* Op applied to the values of its arguments, each evaluated once
Bind1(Op(_), a) == CHOOSE r \in {Op(x) : x \in {a}} : TRUE

Bind2(Op(_, _), a, b) == CHOOSE r \in {Op(x, y) : x \in {a}, y \in {b}} : TRUE

Bind3(Op(_, _, _), a, b, c) ==
  CHOOSE r \in {Op(x, y, z) : x \in {a}, y \in {b}, z \in {c}} : TRUE

\* the number of bits of a >= 0
BitLen(a) == CHOOSE n \in 0..31 : a < 2^n

\* sg * mm * 2^ee, or what float64 makes of it past its range
Pack(sg, mm, ee) ==
  IF ee + Prec > MaxExp2 THEN (IF sg < 0 THEN NInf ELSE PInf)
  ELSE IF ee + Prec < MinExp2 THEN F0
  ELSE [c |-> "fin", m |-> sg * mm, e |-> ee]

\* a * 2^(-s) rounded to an integer, ties away from zero
Shift(a, s) == IF s <= 0 THEN a * 2^(-s) ELSE (a + 2^(s - 1)) \div 2^s

\* the float nearest to m0 * 2^e0  (|m0| < 2^31)
FNorm(m0, e0) ==
  Bind2(LAMBDA m, e :
          IF m = 0 THEN F0
          ELSE Bind1(LAMBDA s :
                       Bind1(LAMBDA r :
                               IF r = 2^Prec THEN Pack(Sgn(m), 2^(Prec - 1), e + s + 1)
                               ELSE Pack(Sgn(m), r, e + s),
                             Shift(Abs(m), s)),
                     BitLen(Abs(m)) - Prec),
        m0, e0)

FromInt(i) == FNorm(i, 0)

IsNaN(x) == x.c = "nan"

IsInf(x) == x.c = "inf"

IsFinite(x) == x.c = "fin"

FNeg(a) == Bind1(LAMBDA x : IF x.c = "nan" THEN NaN ELSE [x EXCEPT !.m = -x.m], a)

\* the sum of two finite floats, neither zero, hi of the larger exponent
AddAligned(hi, lo) ==
  IF hi.e - lo.e > Prec + 1 THEN hi
  ELSE FNorm(hi.m * 2^(hi.e - lo.e) + lo.m, lo.e)

FAdd(a, b) ==
  Bind2(LAMBDA x, y :
          IF IsNaN(x) \/ IsNaN(y) THEN NaN
          ELSE IF IsInf(x) THEN (IF IsInf(y) /\ y.m # x.m THEN NaN ELSE x)
          ELSE IF IsInf(y) THEN y
          ELSE IF x.m = 0 THEN y
          ELSE IF y.m = 0 THEN x
          ELSE IF x.e >= y.e THEN AddAligned(x, y)
          ELSE AddAligned(y, x),
        a, b)

FSub(a, b) == FAdd(a, FNeg(b))

FMul(a, b) ==
  Bind2(LAMBDA x, y :
          IF IsNaN(x) \/ IsNaN(y) THEN NaN
          ELSE IF IsInf(x) \/ IsInf(y)
            THEN (IF x.m = 0 \/ y.m = 0 THEN NaN
                  ELSE IF Sgn(x.m) * Sgn(y.m) < 0 THEN NInf ELSE PInf)
          ELSE FNorm(x.m * y.m, x.e + y.e),
        a, b)

\* true division; a division by zero gives an infinity or NaN (NumPy warns
\* and goes on)
FDiv(a, b) ==
  Bind2(LAMBDA x, y :
          IF IsNaN(x) \/ IsNaN(y) THEN NaN
          ELSE IF IsInf(x)
            THEN (IF IsInf(y) THEN NaN
                  ELSE IF Sgn(x.m) * (IF y.m < 0 THEN -1 ELSE 1) < 0 THEN NInf
                  ELSE PInf)
          ELSE IF IsInf(y) THEN F0
          ELSE IF y.m = 0
            THEN (IF x.m = 0 THEN NaN ELSE IF x.m < 0 THEN NInf ELSE PInf)
          ELSE IF x.m = 0 THEN F0
          ELSE FNorm(Sgn(x.m) * Sgn(y.m) * ((Abs(x.m) * 2^(Prec + 1)) \div Abs(y.m)),
                     x.e - y.e - (Prec + 1)),
        a, b)

\* the sign of x - y for finite x and y
CmpFinite(x, y) == Bind1(LAMBDA d : Sgn(d.m), FSub(x, y))

\* a < b; every comparison with NaN is false
FLt(a, b) ==
  Bind2(LAMBDA x, y :
          IF IsNaN(x) \/ IsNaN(y) THEN FALSE
          ELSE IF x = y THEN FALSE
          ELSE IF IsInf(x) THEN x.m < 0
          ELSE IF IsInf(y) THEN y.m > 0
          ELSE CmpFinite(x, y) < 0,
        a, b)

FGt(a, b) == FLt(b, a)

FAbs(a) == Bind1(LAMBDA x : IF x.c = "nan" THEN NaN ELSE [x EXCEPT !.m = Abs(x.m)], a)

\* np.maximum: NaN if either argument is NaN
FMax(a, b) ==
  Bind2(LAMBDA x, y :
          IF IsNaN(x) \/ IsNaN(y) THEN NaN ELSE IF FLt(x, y) THEN y ELSE x,
        a, b)

F1 == FromInt(1)

F2 == FromInt(2)

Ln2 == FDiv(FromInt(693147181), FromInt(1000000000))

\* the integer nearest to a finite x with |x| < 2^20
FRound(a) ==
  Bind1(LAMBDA x :
          IF x.m = 0 THEN 0
          ELSE IF x.e >= 0 THEN x.m * 2^(x.e)
          ELSE IF -x.e > Prec + 1 THEN 0
          ELSE Sgn(x.m) * Shift(Abs(x.m), -x.e),
        a)

\* the Taylor polynomial of e^r: 1 + r(1 + r/2 (1 + r/3 (1 + r/4 (1 + r/5 (1 + r/6)))))
RECURSIVE ExpSeries(_, _, _)
ExpSeries(r, k, acc) ==
  IF k = 0 THEN acc
  ELSE Bind1(LAMBDA t : ExpSeries(r, k - 1, t),
             FAdd(F1, FMul(FDiv(r, FromInt(k)), acc)))

\* e^x for a finite x # 0 of moderate size: 2^n * e^r with r = x - n ln 2
ExpReduced(x, n) ==
  Bind1(LAMBDA er : FNorm(er.m, er.e + n),
        Bind1(LAMBDA r : ExpSeries(r, 6, F1), FSub(x, FMul(FromInt(n), Ln2))))

\* np.exp
FExp(a) ==
  Bind1(LAMBDA x :
          IF IsNaN(x) THEN NaN
          ELSE IF IsInf(x) THEN (IF x.m > 0 THEN PInf ELSE F0)
          ELSE IF x.m = 0 THEN F1
          ELSE IF x.e + Prec > 11 THEN (IF x.m > 0 THEN PInf ELSE F0)
          ELSE Bind1(LAMBDA n : ExpReduced(x, n), FRound(FDiv(x, Ln2))),
        a)

\* 2 atanh w = 2 w (1 + w^2 (1/3 + w^2 (1/5 + w^2 / 7)))
Atanh2(w, w2) ==
  FMul(F2,
       FMul(w, FAdd(F1, FMul(w2, FAdd(FDiv(F1, FromInt(3)),
                                      FMul(w2, FAdd(FDiv(F1, FromInt(5)),
                                                    FDiv(w2, FromInt(7)))))))))

\* log z for z in [1, 2): 2 atanh((z - 1) / (z + 1))
LogMantissa(z) ==
  Bind1(LAMBDA w : Bind1(LAMBDA w2 : Atanh2(w, w2), FMul(w, w)),
        FDiv(FSub(z, F1), FAdd(z, F1)))

\* np.log: log(m * 2^e) = k ln 2 + log z with z in [1, 2);
\* log 0 = -inf, log of a negative = NaN
FLog(a) ==
  Bind1(LAMBDA x :
          IF IsNaN(x) THEN NaN
          ELSE IF IsInf(x) THEN (IF x.m > 0 THEN PInf ELSE NaN)
          ELSE IF x.m = 0 THEN NInf
          ELSE IF x.m < 0 THEN NaN
          ELSE FAdd(FMul(FromInt(x.e + Prec - 1), Ln2),
                    LogMantissa([c |-> "fin", m |-> x.m, e |-> 1 - Prec])),
        a)

\* the largest r in lo..hi with r * r <= n
RECURSIVE ISqrtFrom(_, _, _)
ISqrtFrom(n, lo0, hi0) ==
  Bind2(LAMBDA lo, hi :
          IF lo >= hi THEN lo
          ELSE Bind1(LAMBDA mid :
                       IF mid * mid <= n THEN ISqrtFrom(n, mid, hi)
                       ELSE ISqrtFrom(n, lo, mid - 1),
                     (lo + hi + 1) \div 2),
        lo0, hi0)

\* the square root of m * 2^e with e - k even
SqrtShifted(x, k) == FNorm(ISqrtFrom(x.m * 2^k, 0, 2^(Prec + 1)), (x.e - k) \div 2)

\* np.sqrt: NaN for NaN and for a negative, inf for inf
FSqrt(a) ==
  Bind1(LAMBDA x :
          IF IsNaN(x) \/ x.m < 0 THEN NaN
          ELSE IF IsInf(x) THEN PInf
          ELSE IF x.m = 0 THEN F0
          ELSE IF (x.e - Prec) % 2 = 0 THEN SqrtShifted(x, Prec)
          ELSE SqrtShifted(x, Prec + 1),
        a)

(***************************************************************************)
(* Arrays.  A 2-d array is [n, d, v]: n rows, d columns, v the sequence of *)
(* its rows (an array of no rows still has its d columns).  A 1-d array is *)
(* a sequence.                                                             *)
(***************************************************************************)

Mat(n, d, v) == [n |-> n, d |-> d, v |-> v]

\* the entries of s added from the first to the last
RECURSIVE FSumRange(_, _, _, _)
FSumRange(acc, s, lo, hi) ==
  IF lo > hi THEN acc ELSE FAdd(FSumRange(acc, s, lo, hi - 1), s[hi])

\* the same sum, the first n - 8 entries added up before the last 8 are
\* added to them
RECURSIVE FSumTo(_, _)
FSumTo(s, n) ==
  IF n <= 8 THEN FSumRange(F0, s, 1, n)
  ELSE Bind1(LAMBDA acc : FSumRange(acc, s, n - 7, n), FSumTo(s, n - 8))

FSum(a) == Bind1(LAMBDA s : FSumTo(s, Len(s)), a)

Col(X, j) == [i \in 1..X.n |-> X.v[i][j]]

Transpose(A) == Bind1(LAMBDA X : Mat(X.d, X.n, [j \in 1..X.d |-> Col(X, j)]), A)

\* the entry (i, j) of A @ B
Dot(A, B, i, j) == FSum([t \in 1..A.d |-> FMul(A.v[i][t], B.v[t][j])])

\* A @ B
MatMul(A0, B0) ==
  Bind2(LAMBDA A, B : Mat(A.n, B.d, [i \in 1..A.n |-> [j \in 1..B.d |-> Dot(A, B, i, j)]]),
        A0, B0)

MatScale(A0, c0) ==
  Bind2(LAMBDA A, c : Mat(A.n, A.d, [i \in 1..A.n |-> [j \in 1..A.d |-> FMul(A.v[i][j], c)]]),
        A0, c0)

MatAdd(A0, B0) ==
  Bind2(LAMBDA A, B :
          Mat(A.n, A.d, [i \in 1..A.n |-> [j \in 1..A.d |-> FAdd(A.v[i][j], B.v[i][j])]]),
        A0, B0)

MatSub(A0, B0) ==
  Bind2(LAMBDA A, B :
          Mat(A.n, A.d, [i \in 1..A.n |-> [j \in 1..A.d |-> FSub(A.v[i][j], B.v[i][j])]]),
        A0, B0)

Zeros(n, d) == Mat(n, d, [i \in 1..n |-> [j \in 1..d |-> F0]])

AllFinite(A0) ==
  Bind1(LAMBDA A : \A i \in 1..A.n : \A j \in 1..A.d : IsFinite(A.v[i][j]), A0)

\* np.mean(X, axis=0): the sum of each column divided by the row count
\* (0/0 = NaN for an array of no rows)
ColMeans(X0) ==
  Bind1(LAMBDA X : [j \in 1..X.d |-> FDiv(FSum(Col(X, j)), FromInt(X.n))], X0)

\* X - mean, the row vector subtracted from every row
SubRow(X0, mean0) ==
  Bind2(LAMBDA X, mean :
          Mat(X.n, X.d, [i \in 1..X.n |-> [j \in 1..X.d |-> FSub(X.v[i][j], mean[j])]]),
        X0, mean0)

\* m with the mean of each row subtracted from the row
CenterRows(m0) ==
  Bind1(LAMBDA m :
          Bind1(LAMBDA avg :
                  Mat(m.n, m.d,
                      [i \in 1..m.n |-> [j \in 1..m.d |-> FSub(m.v[i][j], avg[i])]]),
                [i \in 1..m.n |-> FDiv(FSum(m.v[i]), FromInt(m.d))]),
        m0)

\* np.cov(..., bias=True): the divisor is the number of observations
CovFactBiased(n) == FromInt(n)

\* the divisor of np.cov for n observations: n - 1, or 0.0 (after a warning)
\* if that is not positive
CovFact(n) == IF n - 1 <= 0 THEN F0 ELSE FromInt(n - 1)

(***************************************************************************)
(* np.cov(m) of a d x n array m (each row a variable): the rows are        *)
(* centred again, c = m m^T times 1/(n - 1), and the result is squeezed:   *)
(* for d = 1 it is a 0-d array.  nd is the number of dimensions of the     *)
(* result.                                                                 *)
(***************************************************************************)
NpCov(m0) ==
  Bind1(LAMBDA m :
          Bind1(LAMBDA mc :
                  [nd |-> IF m.n = 1 THEN 0 ELSE 2,
                   a |-> MatScale(MatMul(mc, Transpose(mc)), FDiv(F1, CovFact(m.d)))],
                CenterRows(m)),
        m0)

(***************************************************************************)
(* np.linalg.eig(a): LinAlgError for an array of fewer than 2 dimensions   *)
(* and for one with a NaN or an infinity.  The covariance matrix is        *)
(* symmetric; for the 2 x 2 matrix ((p, q), (q, r)) the eigenvalues are    *)
(* (p + r)/2 +- sqrt(((p - r)/2)^2 + q^2), returned in the solver's order  *)
(* (a diagonal matrix keeps its diagonal; else the eigenvalue nearer to p  *)
(* comes first), each with a unit eigenvector.                             *)
(***************************************************************************)
\* a solver that does not look for NaN or infinity
EigOkAnyEntries(cov) == cov.nd = 2

EigOk(cov) == cov.nd = 2 /\ AllFinite(cov.a)

\* sqrt(x^2 + y^2)
Hypot(x0, y0) == Bind2(LAMBDA x, y : FSqrt(FAdd(FMul(x, x), FMul(y, y))), x0, y0)

\* the unit eigenvector (q, l - p) / |(q, l - p)| of the eigenvalue l
EigVec(p, q, l) ==
  Bind1(LAMBDA y : Bind1(LAMBDA nrm : <<FDiv(q, nrm), FDiv(y, nrm)>>, Hypot(q, y)),
        FSub(l, p))

\* the eigenpairs of ((p, q), (q, r)), q # 0, for the eigenvalues first, second
EigPairs(p, q, first, second) ==
  Bind2(LAMBDA v1, v2 :
          [w |-> <<first, second>>,
           v |-> Mat(2, 2, <<(<<v1[1], v2[1]>>), (<<v1[2], v2[2]>>)>>)],
        EigVec(p, q, first), EigVec(p, q, second))

Eig2Of(p, q, r) ==
  IF q.m = 0
    THEN [w |-> <<p, r>>, v |-> Mat(2, 2, <<(<<F1, F0>>), (<<F0, F1>>)>>)]
    ELSE Bind2(LAMBDA mid, rad :
                 IF FLt(p, r) THEN EigPairs(p, q, FSub(mid, rad), FAdd(mid, rad))
                 ELSE EigPairs(p, q, FAdd(mid, rad), FSub(mid, rad)),
               FDiv(FAdd(p, r), F2), Hypot(FDiv(FSub(p, r), F2), q))

Eig2(a0) == Bind1(LAMBDA a : Eig2Of(a.v[1][1], a.v[1][2], a.v[2][2]), a0)

NpEig(cov) == Eig2(cov.a)

\* s with n put after its first pos entries
InsertAt(s, pos, n) == SubSeq(s, 1, pos) \o <<n>> \o SubSeq(s, pos + 1, Len(s))

\* a.argsort(): the indices that sort a ascending (insertion sort, as NumPy
\* sorts a short array: equal keys keep their order)
RECURSIVE Argsort(_, _)
Argsort(w, n) ==
  IF n = 0 THEN <<>>
  ELSE Bind1(LAMBDA s :
               InsertAt(s, Cardinality({t \in 1..Len(s) : ~FLt(w[n], w[s[t]])}), n),
             Argsort(w, n - 1))

Reverse(s0) == Bind1(LAMBDA s : [t \in 1..Len(s) |-> s[Len(s) + 1 - t]], s0)

\* the order without the reversal: eigenvalues.argsort()
SortIdxAscending(w0) == Bind1(LAMBDA w : Argsort(w, Len(w)), w0)

\* eigenvalues.argsort()[::-1]
SortIdx(w0) == Bind1(LAMBDA w : Reverse(Argsort(w, Len(w))), w0)

\* a[:, idx]
TakeCols(a0, idx0) ==
  Bind2(LAMBDA a, idx :
          Mat(a.n, Len(idx), [i \in 1..a.n |-> [j \in 1..Len(idx) |-> a.v[i][idx[j]]]]),
        a0, idx0)

\* a[:, :k] for k >= 0: a slice past the end stops at the end
FirstCols(a0, k0) ==
  Bind2(LAMBDA a, kk : Mat(a.n, kk, [i \in 1..a.n |-> [j \in 1..kk |-> a.v[i][j]]]),
        a0, IF k0 < a0.d THEN k0 ELSE a0.d)


(***************************************************************************)
(* SimplePCA                                                               *)
(***************************************************************************)

NoneVec == <<>>

NoneMat == Mat(0, 0, <<>>)

\* a reducer object; the host's variable holds none before the first
\* construction.  A SimplePCA has n_components, mean, components; a
\* SimpleTSNE has n_components, perplexity, n_iter, random_state.
NoReducer ==
  [cls |-> "none", n_components |-> 0, perplexity |-> 0, n_iter |-> 0,
   random_state |-> 0, mean |-> NoneVec, components |-> NoneMat]

\* SimplePCA.__init__
NewPCA(k) ==
  [cls |-> "pca", n_components |-> k, perplexity |-> 0, n_iter |-> 0,
   random_state |-> 0, mean |-> NoneVec, components |-> NoneMat]

\* SimpleTSNE.__init__ (its np.random.seed is in the action)
NewTSNE(k, perp, iters, seed) ==
  [cls |-> "tsne", n_components |-> k, perplexity |-> perp, n_iter |-> iters,
   random_state |-> seed, mean |-> NoneVec, components |-> NoneMat]

\* what a call gives back: a matrix, or an exception
NoResult == [kind |-> "none", val |-> NoneMat, err |-> ""]

Returned(m) == [kind |-> "matrix", val |-> m, err |-> ""]

Raised(e) == [kind |-> "error", val |-> NoneMat, err |-> e]

\* the mean kept from an earlier fit of data of the same width
PcaMeanCached(self, X) ==
  IF self.mean # NoneVec /\ Len(self.mean) = X.d THEN self.mean ELSE ColMeans(X)

\* self.mean = np.mean(X, axis=0)
PcaMean(self, X) == ColMeans(X)

\* self.components = eigenvectors[:, :self.n_components]
PcaComponents(self, eigenvectors) == FirstCols(eigenvectors, self.n_components)

\* eigenvalues, eigenvectors = np.linalg.eig(cov); idx = argsort()[::-1];
\* eigenvectors = eigenvectors[:, idx]
SortedEigenvectors(cov) ==
  Bind1(LAMBDA eig : TakeCols(eig.v, SortIdx(eig.w)), NpEig(cov))

\* the data themselves projected: X @ self.components
XTransformedRaw(X_centered, mean, components) ==
  MatMul(SubRow(X_centered, [j \in 1..Len(mean) |-> FNeg(mean[j])]), components)

\* X_transformed = X_centered @ self.components
XTransformed(X_centered, mean, components) == MatMul(X_centered, components)

\* the projection with mean and basis kept in local variables, the object
\* left as it was
PcaProjectLocal(self, mean, X_centered, cov) ==
  Bind1(LAMBDA components :
          [self |-> self,
           res |-> Returned(XTransformed(X_centered, mean, components))],
        PcaComponents(self, SortedEigenvectors(cov)))

\* the rest of fit_transform once np.linalg.eig has its matrix
PcaProject(self, mean, X_centered, cov) ==
  Bind1(LAMBDA components :
          [self |-> [self EXCEPT !.mean = mean, !.components = components],
           res |-> Returned(XTransformed(X_centered, mean, components))],
        PcaComponents(self, SortedEigenvectors(cov)))

\* fit_transform from the centred data on
PcaFromCentered(self, mean, X_centered) ==
  Bind1(LAMBDA cov :
          IF ~EigOk(cov)
            THEN [self |-> [self EXCEPT !.mean = mean], res |-> Raised("LinAlgError")]
            ELSE PcaProject(self, mean, X_centered, cov),
        NpCov(Transpose(X_centered)))

(***************************************************************************)
(* SimplePCA.fit_transform(X): the object after the call and the result.   *)
(* np.linalg.eig raises LinAlgError after self.mean has been assigned.     *)
(***************************************************************************)
PcaFitTransform(self0, X0) ==
  Bind2(LAMBDA self, X :
          Bind1(LAMBDA mean :
                  Bind1(LAMBDA X_centered : PcaFromCentered(self, mean, X_centered),
                        SubRow(X, mean)),
                PcaMean(self, X)),
        self0, X0)

(***************************************************************************)
(* SimpleTSNE                                                              *)
(***************************************************************************)

\* for _ in range(50): the cap of the search for beta
SearchCap == 50

\* if i == 250: momentum = 0.8
SwitchIter == 250

\* if (i + 1) % 100 == 0: print
ProgressEvery == 100

\* lr = 200.0
LearningRate == 200

\* Y = Y * 0.0001
InitScale == FDiv(F1, FromInt(10000))

\* abs(Hdiff) < 1e-5
Tol == FDiv(F1, FromInt(100000))

\* np.maximum(P, 1e-12)
Floor == FMul(FDiv(F1, FromInt(1000000)), FDiv(F1, FromInt(1000000)))

\* momentum = 0.5
MomentumLow == FDiv(F1, F2)

\* a switch that assigns the value the momentum already has
MomentumUnchanged == FDiv(F1, F2)

\* momentum = 0.8
MomentumHigh == FDiv(FromInt(4), FromInt(5))

\* np.sum(A**2, axis=1)
RowSq(A0) ==
  Bind1(LAMBDA A : [i \in 1..A.n |-> FSum([j \in 1..A.d |-> FMul(A.v[i][j], A.v[i][j])])],
        A0)

\* 2 * A @ A.T, which Python reads as (2 * A) @ A.T
TwoGram(A0) == Bind1(LAMBDA A : MatMul(MatScale(A, F2), Transpose(A)), A0)

\* the array of the entries f(i, j) = np.maximum(s[i] + s[j] - G[i][j], 0)
SqDist(s, G, i, j) == FMax(FSub(FAdd(s[i], s[j]), G.v[i][j]), F0)

\* D = sum_X[:, None] + sum_X[None, :] - 2 * X @ X.T; D = np.maximum(D, 0)
PairwiseD(X0) ==
  Bind1(LAMBDA X :
          Bind2(LAMBDA sum_X, G :
                  Mat(X.n, X.n, [i \in 1..X.n |-> [j \in 1..X.n |-> SqDist(sum_X, G, i, j)]]),
                RowSq(X), TwoGram(X)),
        X0)

\* np.concatenate((np.arange(i), np.arange(i+1, n))): every index but i
\* (i counts from 1 here)
Others(i, n) == [t \in 1..(n - 1) |-> IF t < i THEN t ELSE t + 1]

\* Di = D[i, others]
RowWithout(D, i) == [t \in 1..(D.n - 1) |-> D.v[i][Others(i, D.n)[t]]]

\* H = np.log(sum_exp) + beta * np.sum(Di * exp_D) / sum_exp
EntropyH(Di, beta, exp_D, sum_exp) ==
  FAdd(FLog(sum_exp),
       FDiv(FMul(beta, FSum([t \in 1..Len(Di) |-> FMul(Di[t], exp_D[t])])), sum_exp))

\* exp_D = np.exp(-Di * beta)
ExpD(Di, beta) == [t \in 1..Len(Di) |-> FExp(FMul(FNeg(Di[t]), beta))]

\* one evaluation of the search: exp_D, sum_exp and Hdiff for beta
Entropy(Di0, beta0, perplexity) ==
  Bind2(LAMBDA Di, beta :
          Bind1(LAMBDA exp_D :
                  Bind1(LAMBDA sum_exp :
                          [exp_D |-> exp_D, sum_exp |-> sum_exp,
                           Hdiff |-> FSub(EntropyH(Di, beta, exp_D, sum_exp),
                                          FLog(FromInt(perplexity)))],
                        FSum(exp_D)),
                ExpD(Di, beta)),
        Di0, beta0)

\* the update that never bisects: beta doubled or halved whatever the
\* bounds are
BetaStepNoBisect(b, Hdiff) ==
  IF FGt(Hdiff, F0)
    THEN [beta_min |-> b.beta, beta_max |-> b.beta_max, beta |-> FMul(b.beta, F2)]
    ELSE [beta_max |-> b.beta, beta_min |-> b.beta_min, beta |-> FDiv(b.beta, F2)]

\* the update of (beta, beta_min, beta_max) after an evaluation that did
\* not meet the tolerance
BetaStep(b, Hdiff) ==
  IF FGt(Hdiff, F0)
    THEN [beta_min |-> b.beta,
          beta_max |-> b.beta_max,
          beta |-> IF b.beta_max = PInf THEN FMul(b.beta, F2)
                   ELSE FDiv(FAdd(b.beta, b.beta_max), F2)]
    ELSE [beta_max |-> b.beta,
          beta_min |-> b.beta_min,
          beta |-> IF b.beta_min = NInf THEN FDiv(b.beta, F2)
                   ELSE FDiv(FAdd(b.beta, b.beta_min), F2)]

\* the row written without the division by sum_exp
WriteRowUnnormalized(P, i, exp_D, sum_exp) ==
  [P EXCEPT !.v[i] = [j \in 1..P.n |->
      IF j = i THEN P.v[i][i]
      ELSE exp_D[IF j < i THEN j ELSE j - 1]]]

\* P[i, others] = exp_D / sum_exp
WriteRow(P, i, exp_D, sum_exp) ==
  [P EXCEPT !.v[i] = [j \in 1..P.n |->
      IF j = i THEN P.v[i][i]
      ELSE FDiv(exp_D[IF j < i THEN j ELSE j - 1], sum_exp)]]

\* P = (P + P.T) / (2 * n_samples); return np.maximum(P, 1e-12)
Symmetrize(P0) ==
  Bind1(LAMBDA P :
          Mat(P.n, P.n,
              [i \in 1..P.n |->
                 [j \in 1..P.n |->
                    FMax(FDiv(FAdd(P.v[i][j], P.v[j][i]), FromInt(2 * P.n)), Floor)]]),
        P0)

\* 1 / (1 + s[i] + s[j] - G[i][j])
Kernel(s, G, i, j) == FDiv(F1, FSub(FAdd(FAdd(F1, s[i]), s[j]), G.v[i][j]))

\* num = 1 / (1 + sum_Y[:, None] + sum_Y[None, :] - 2 * Y @ Y.T);
\* np.fill_diagonal(num, 0)
Num(Y0) ==
  Bind1(LAMBDA Y :
          Bind2(LAMBDA sum_Y, G :
                  Mat(Y.n, Y.n,
                      [i \in 1..Y.n |->
                         [j \in 1..Y.n |-> IF i = j THEN F0 ELSE Kernel(sum_Y, G, i, j)]]),
                RowSq(Y), TwoGram(Y)),
        Y0)

\* np.sum(A): all entries, row after row
SumAll(A0) ==
  Bind1(LAMBDA A :
          FSum([t \in 1..(A.n * A.d) |-> A.v[((t - 1) \div A.d) + 1][((t - 1) % A.d) + 1]]),
        A0)

\* Q = num / np.sum(num); Q = np.maximum(Q, 1e-12)
QMatrix(num0) ==
  Bind2(LAMBDA num, total :
          Mat(num.n, num.d,
              [i \in 1..num.n |->
                 [j \in 1..num.d |-> FMax(FDiv(num.v[i][j], total), Floor)]]),
        num0, SumAll(num0))

\* 4 * np.sum((PQ[j] * num[j])[:, None] * (Y[j] - Y), axis=0)[c]
GradEntry(PQ, num, Y, j, c) ==
  FMul(FromInt(4),
       FSum([t \in 1..Y.n |->
               FMul(FMul(PQ.v[j][t], num.v[j][t]), FSub(Y.v[j][c], Y.v[t][c]))]))

\* the gradient from PQ = P - Q and num
GradFrom(PQ0, num, Y) ==
  Bind1(LAMBDA PQ :
          Mat(Y.n, Y.d, [j \in 1..Y.n |-> [c \in 1..Y.d |-> GradEntry(PQ, num, Y, j, c)]]),
        PQ0)

\* grad[j] = 4 * np.sum((PQ[j] * num[j])[:, None] * (Y[j] - Y), axis=0)
Gradient(P0, Y0) ==
  Bind2(LAMBDA P, Y :
          Bind1(LAMBDA num : GradFrom(MatSub(P, QMatrix(num)), num, Y), Num(Y)),
        P0, Y0)

\* the previous update begun as a copy of the layout: Y_prev = Y.copy()
YPrevCopy(Y) == Y

\* Y_prev = np.zeros_like(Y)
YPrevInit(Y) == Zeros(Y.n, Y.d)

\* plain gradient descent, the velocity left out: Y_update = - lr * grad
YUpdatePlain(momentum, Y_prev, grad) ==
  MatSub(Zeros(Y_prev.n, Y_prev.d), MatScale(grad, FromInt(LearningRate)))

\* Y_update = momentum * Y_prev - lr * grad
YUpdate(momentum, Y_prev, grad) ==
  MatSub(MatScale(Y_prev, momentum), MatScale(grad, FromInt(LearningRate)))


(***************************************************************************)
(* The process: a host with one reducer variable                           *)
(* (reducer = SimplePCA(...) or SimpleTSNE(...); reducer.fit_transform(X)),*)
(* NumPy's process-wide random generator, standard output, and the frame   *)
(* of the running fit_transform call.                                      *)
(***************************************************************************)

\* the largest iteration budget n_iter the host passes
MaxIters == 2

\* the n_components of the SimplePCA objects the host constructs
Ks == {1, 2, 3}

\* the arguments of the SimpleTSNE objects the host constructs: the
\* dashboard's n_components = 2 with a perplexity below and one at the row
\* counts of the inputs, one component, and more components than columns
Configs ==
  {[k |-> 2, perp |-> 1, iters |-> MaxIters, seed |-> 42],
   [k |-> 2, perp |-> 3, iters |-> 1, seed |-> 42],
   [k |-> 1, perp |-> 1, iters |-> 1, seed |-> 42],
   [k |-> 3, perp |-> 1, iters |-> 0, seed |-> 42]}

\* the seeds the host's other code gives np.random.seed
HostSeeds == {7}

FM(rows) == Mat(Len(rows), Len(rows[1]), [i \in 1..Len(rows) |-> [j \in 1..Len(rows[1]) |-> rows[i][j]]])

I(n) == FromInt(n)

\* three points in the plane
XA == FM(<< <<I(0), I(0)>>, <<I(3), I(1)>>, <<I(1), I(4)>> >>)

\* two points
XB == FM(<< <<I(0), I(0)>>, <<I(3), I(4)>> >>)

\* one column
XC == FM(<< <<I(1)>>, <<I(2)>>, <<I(4)>> >>)

\* one row
XOne == FM(<< <<I(1), I(2)>> >>)

\* no row
XNone == Mat(0, 2, <<>>)

\* a NaN entry
XNaN == FM(<< <<I(0), I(0)>>, <<I(3), NaN>>, <<I(1), I(4)>> >>)

\* an infinite entry
XInf == FM(<< <<I(0), PInf>>, <<I(3), I(4)>> >>)

Inputs == {XA, XB, XC, XOne, XNone, XNaN, XInf}

VARIABLES
  reducer,  \* the host's reducer object
  rng,      \* the state of np.random's global generator: 0 as the process
            \* starts, s after np.random.seed(s)
  out,      \* the progress lines printed since the call began
  cancel,   \* the host has asked the running call to stop
  fr,       \* the frame of the running fit_transform (pc = "idle": none)
  embeddings, \* the caller's array, passed to fit_transform as X, as the
            \* call leaves it
  arg,      \* the X of the running or last call
  ret,      \* what the last call returned or raised
  op,       \* the step taken last
  trace,    \* the frames the running or last embed went through
  hist,     \* the reference embed of these constructor arguments, the first
            \* call on a reducer just constructed: X, the generator's state,
            \* its frames, its result
  mon       \* fresh: no call yet on this reducer; reused: the running or
            \* last call was made on a reducer called before; rec: it is
            \* the reference embed; cmp: hist is the reference embed of its
            \* arguments; pos counts its frames, updates its assignments
            \* to Y in the loop

vars == <<reducer, rng, out, cancel, fr, embeddings, arg, ret, op, trace, hist, mon>>

IdleFrame ==
  [pc |-> "idle", Y |-> NoneMat, D |-> NoneMat, P |-> NoneMat, beta |-> <<>>,
   i |-> 0, step |-> 0, beta_min |-> NInf, beta_max |-> PInf, exp_D |-> <<>>,
   sum_exp |-> F0, Hdiff |-> F0, momentum |-> F0, Y_prev |-> NoneMat, it |-> 0]

NoHist ==
  [valid |-> FALSE, X |-> NoneMat, rng |-> 0, trace |-> <<>>, ret |-> NoResult]

NoMon ==
  [fresh |-> FALSE, reused |-> FALSE, rec |-> FALSE, cmp |-> FALSE, pos |-> 0,
   updates |-> 0]

Init ==
  /\ reducer = NoReducer
  /\ rng = 0
  /\ out = <<>>
  /\ cancel = FALSE
  /\ fr = IdleFrame
  /\ arg = NoneMat
  /\ ret = NoResult
  /\ op = "start"
  /\ trace = <<>>
  /\ hist = NoHist
  /\ mon = NoMon
  /\ embeddings = NoneMat

Idle == fr.pc = "idle"

SameArgs(a, b) ==
  /\ a.cls = b.cls
  /\ a.n_components = b.n_components
  /\ a.perplexity = b.perplexity
  /\ a.n_iter = b.n_iter
  /\ a.random_state = b.random_state

\* both constructors seeding the generator
RngAfterInitBoth(cls, random_state, r) == random_state

\* the generator after a constructor has run: SimpleTSNE.__init__ calls
\* np.random.seed(random_state), SimplePCA.__init__ does not touch it
RngAfterInit(cls, random_state, r) == IF cls = "tsne" THEN random_state ELSE r

\* reducer = SimplePCA(n_components=k)
ConstructPCA(k) ==
  /\ Idle
  /\ reducer' = NewPCA(k)
  /\ rng' = RngAfterInit("pca", 0, rng)
  /\ op' = "init_pca"
  /\ hist' = NoHist
  /\ mon' = [NoMon EXCEPT !.fresh = TRUE]
  /\ UNCHANGED <<out, cancel, fr, embeddings, arg, ret, trace>>

\* reducer = SimpleTSNE(n_components=k, perplexity=perp, n_iter=iters,
\*                      random_state=seed)
ConstructTSNE(k, perp, iters, seed) ==
  /\ Idle
  /\ reducer' = NewTSNE(k, perp, iters, seed)
  /\ rng' = RngAfterInit("tsne", seed, rng)
  /\ op' = "init_tsne"
  /\ hist' = IF SameArgs(reducer, reducer') THEN hist ELSE NoHist
  /\ mon' = [NoMon EXCEPT !.fresh = TRUE]
  /\ UNCHANGED <<out, cancel, fr, embeddings, arg, ret, trace>>

\* other code of the host: np.random.seed(s)
\* (dashboard/pages/analytics.py, SimpleKMeans.__init__)
HostSeed(s) ==
  /\ Idle
  /\ rng' = s
  /\ op' = "host_seed"
  /\ UNCHANGED <<reducer, out, cancel, fr, embeddings, arg, ret, trace, hist, mon>>

\* X -= self.mean: the data centred in the caller's array
XCenteredInPlace(X, mean) == SubRow(X, mean)

\* the caller's array after X_centered = X - self.mean, which builds a new
\* array: no statement of fit_transform assigns to X or to an entry of it
XAfterCentering(X, mean) == X

\* reducer.fit_transform(X) on a SimplePCA
Project(X) ==
  /\ Idle
  /\ reducer.cls = "pca"
  /\ LET r == PcaFitTransform(reducer, X)
     IN /\ reducer' = r.self
        /\ ret' = r.res
        /\ op' = IF r.res.kind = "error" THEN "raise" ELSE "return"
  /\ arg' = X
  /\ embeddings' = XAfterCentering(X, PcaMean(reducer, X))
  /\ out' = <<>>
  /\ cancel' = FALSE
  /\ trace' = <<>>
  /\ mon' = [NoMon EXCEPT !.reused = ~mon.fresh]
  /\ UNCHANGED <<rng, fr, hist>>


\* the warm start with noise drawn from the global generator added
WarmStartRandom(self, X) ==
  Bind1(LAMBDA w :
          IF w.kind = "error" THEN w
          ELSE Returned(Mat(w.val.n, w.val.d,
                            [i \in 1..w.val.n |->
                               [j \in 1..w.val.d |-> FAdd(w.val.v[i][j], FromInt(rng))]])),
        PcaFitTransform(NewPCA(self.n_components), X).res)

\* pca = SimplePCA(n_components=self.n_components); Y = pca.fit_transform(X)
WarmStart(self, X) == PcaFitTransform(NewPCA(self.n_components), X).res

\* the frame with the warm start taken as it is, line 70 left out
FirstFrameUnscaled(self, X, Y0) ==
  [IdleFrame EXCEPT
     !.pc = "search",
     !.Y = Y0,
     !.D = PairwiseD(X),
     !.P = Zeros(X.n, X.n),
     !.beta = [t \in 1..X.n |-> F1],
     !.i = 1]

\* the frame as _compute_joint_probabilities begins the search for the
\* first point
FirstFrame(self, X, Y0) ==
  [IdleFrame EXCEPT
     !.pc = "search",
     !.Y = MatScale(Y0, InitScale),
     !.D = PairwiseD(X),
     !.P = Zeros(X.n, X.n),
     !.beta = [t \in 1..X.n |-> F1],
     !.i = 1]

\* what of a frame the two runs of a comparison must agree on
Snap(f) ==
  [pc |-> f.pc, beta |-> f.beta, beta_min |-> f.beta_min, beta_max |-> f.beta_max,
   P |-> f.P, Y |-> f.Y, Y_prev |-> f.Y_prev, momentum |-> f.momentum,
   i |-> f.i, step |-> f.step, it |-> f.it]

\* the monitors of a call that goes on to the frame f
Track(f) ==
  /\ trace' = IF mon.rec THEN Append(trace, Snap(f)) ELSE <<>>
  /\ mon' = [mon EXCEPT !.pos = mon.pos + 1,
                        !.updates = IF op' = "iterate" THEN mon.updates + 1
                                    ELSE mon.updates]
  /\ UNCHANGED hist

\* the monitors of a call that ends with the result r
Close(m, X, tr, r) ==
  /\ trace' = <<>>
  /\ mon' = m
  /\ hist' = IF m.rec
               THEN [valid |-> TRUE, X |-> X, rng |-> rng, trace |-> tr, ret |-> r]
               ELSE IF m.cmp THEN hist ELSE NoHist

\* reducer.fit_transform(X) on a SimpleTSNE, up to the first evaluation of
\* the search; the exception of the warm start ends the call
EmbedStart(X) ==
  /\ Idle
  /\ reducer.cls = "tsne"
  /\ arg' = X
  /\ embeddings' = XAfterCentering(X, PcaMean(NewPCA(reducer.n_components), X))
  /\ out' = <<>>
  /\ cancel' = FALSE
  /\ LET w == WarmStart(reducer, X)
         m == [fresh |-> FALSE, reused |-> ~mon.fresh,
               rec |-> mon.fresh /\ rng = reducer.random_state
                       /\ ~(hist.valid /\ hist.X = X),
               cmp |-> hist.valid /\ hist.X = X, pos |-> 1, updates |-> 0]
     IN IF w.kind = "error"
          THEN /\ fr' = IdleFrame
               /\ ret' = w
               /\ op' = "raise"
               /\ Close([m EXCEPT !.pos = 0], X, <<>>, w)
          ELSE /\ fr' = FirstFrame(reducer, X, w.val)
               /\ ret' = NoResult
               /\ op' = "embed"
               /\ mon' = m
               /\ trace' = IF m.rec THEN <<Snap(fr')>> ELSE <<>>
               /\ hist' = IF m.cmp THEN hist ELSE NoHist
  /\ UNCHANGED <<reducer, rng>>

\* the test without abs: if Hdiff < 1e-5: break
ConvergedSigned(Hdiff) == FLt(Hdiff, Tol)

\* if abs(Hdiff) < 1e-5: break
Converged(Hdiff) == FLt(FAbs(Hdiff), Tol)

\* one pass of "for _ in range(50)" for point fr.i
SearchStep ==
  /\ fr.pc = "search"
  /\ LET e == Entropy(RowWithout(fr.D, fr.i), fr.beta[fr.i], reducer.perplexity)
         b == BetaStep([beta |-> fr.beta[fr.i], beta_min |-> fr.beta_min,
                        beta_max |-> fr.beta_max], e.Hdiff)
     IN fr' = IF Converged(e.Hdiff)
                THEN [fr EXCEPT !.exp_D = e.exp_D, !.sum_exp = e.sum_exp,
                                !.Hdiff = e.Hdiff, !.pc = "write"]
                ELSE [fr EXCEPT !.exp_D = e.exp_D, !.sum_exp = e.sum_exp,
                                !.Hdiff = e.Hdiff,
                                !.beta[fr.i] = b.beta,
                                !.beta_min = b.beta_min,
                                !.beta_max = b.beta_max,
                                !.step = fr.step + 1,
                                !.pc = IF fr.step + 1 = SearchCap THEN "write"
                                       ELSE "search"]
  /\ op' = "search"
  /\ Track(fr')
  /\ UNCHANGED <<reducer, rng, out, cancel, embeddings, arg, ret>>

\* the bounds set once before the loop over the points and carried from one
\* point to the next
BoundsCarried(beta_min, beta_max) == [beta_min |-> beta_min, beta_max |-> beta_max]

\* beta_min, beta_max = -np.inf, np.inf for the next point
BoundsReset(beta_min, beta_max) == [beta_min |-> NInf, beta_max |-> PInf]

\* the search for point fr.i is over: its row of P is written; then the
\* search for the next point begins or, after the last point, P is made
\* symmetric and the descent is set up (lr, momentum, Y_prev)
WriteStep ==
  /\ fr.pc = "write"
  /\ LET P1 == WriteRow(fr.P, fr.i, fr.exp_D, fr.sum_exp)
     IN fr' = IF fr.i < fr.P.n
                THEN [fr EXCEPT !.P = P1, !.i = fr.i + 1, !.step = 0,
                                !.beta_min = BoundsReset(fr.beta_min, fr.beta_max).beta_min,
                                !.beta_max = BoundsReset(fr.beta_min, fr.beta_max).beta_max,
                                !.pc = "search"]
                ELSE [fr EXCEPT !.P = Symmetrize(P1),
                                !.momentum = MomentumLow,
                                !.Y_prev = YPrevInit(fr.Y),
                                !.it = 0,
                                !.pc = "loop"]
  /\ op' = "write"
  /\ Track(fr')
  /\ UNCHANGED <<reducer, rng, out, cancel, embeddings, arg, ret>>

\* a loop that stops one pass short: range(self.n_iter - 1)
LoopDoneEarly(self, i) == i + 1 >= self.n_iter

\* range(self.n_iter) is exhausted after i passes
LoopDone(self, i) == i >= self.n_iter

\* a switch placed at a quarter of the budget: if 4 * i == self.n_iter
MomentumAfterQuarter(self, i, momentum) ==
  IF 4 * i = self.n_iter THEN MomentumHigh ELSE momentum

\* if i == 250: momentum = 0.8
MomentumAfter(self, i, momentum) ==
  IF i = SwitchIter THEN MomentumHigh ELSE momentum

\* the test on the 0-based index: if i % 100 == 0: print(i)
ProgressZeroBased(stdout, i) ==
  IF i % ProgressEvery = 0 THEN Append(stdout, i) ELSE stdout

\* if (i + 1) % 100 == 0: print(f"  t-SNE iteration {i+1}/{self.n_iter}")
Progress(stdout, i) ==
  IF (i + 1) % ProgressEvery = 0 THEN Append(stdout, i + 1) ELSE stdout

\* one pass of "for i in range(self.n_iter)"
Iterate ==
  /\ fr.pc = "loop"
  /\ ~LoopDone(reducer, fr.it)
  /\ LET grad == Gradient(fr.P, fr.Y)
         Y_update == YUpdate(fr.momentum, fr.Y_prev, grad)
     IN fr' = [fr EXCEPT !.Y = MatAdd(fr.Y, Y_update),
                         !.Y_prev = Y_update,
                         !.momentum = MomentumAfter(reducer, fr.it, fr.momentum),
                         !.it = fr.it + 1]
  /\ out' = Progress(out, fr.it)
  /\ op' = "iterate"
  /\ Track(fr')
  /\ UNCHANGED <<reducer, rng, cancel, embeddings, arg, ret>>

\* return Y
Return ==
  /\ fr.pc = "loop"
  /\ LoopDone(reducer, fr.it)
  /\ ret' = Returned(fr.Y)
  /\ fr' = IdleFrame
  /\ op' = "return"
  /\ Close(mon, arg, trace, Returned(fr.Y))
  /\ UNCHANGED <<reducer, rng, out, cancel, embeddings, arg>>

\* the host asks the running embed to stop while iterations remain
RequestCancel ==
  /\ fr.pc = "loop"
  /\ ~LoopDone(reducer, fr.it)
  /\ ~cancel
  /\ cancel' = TRUE
  /\ op' = "request_cancel"
  /\ UNCHANGED <<reducer, rng, out, fr, embeddings, arg, ret, trace, hist, mon>>

Next ==
  \/ \E k \in Ks : ConstructPCA(k)
  \/ \E c \in Configs : ConstructTSNE(c.k, c.perp, c.iters, c.seed)
  \/ \E s \in HostSeeds : HostSeed(s)
  \/ \E X \in Inputs : Project(X)
  \/ \E X \in Inputs : EmbedStart(X)
  \/ SearchStep
  \/ WriteStep
  \/ Iterate
  \/ Return
  \/ RequestCancel

Spec == Init /\ [][Next]_vars

(***************************************************************************)
(* The claims.  In a state with op "return" or "raise" a call has just     *)
(* ended: reducer is the object it was made on, arg its X, ret its result. *)
(***************************************************************************)

CallDone == op \in {"return", "raise"}

ProjectDone == CallDone /\ reducer.cls = "pca"

EmbedDone == CallDone /\ reducer.cls = "tsne"

\* m is an n x k matrix
HasShape(m, n, k) ==
  /\ m.n = n
  /\ m.d = k
  /\ Len(m.v) = n
  /\ \A i \in 1..n : Len(m.v[i]) = k

\* X has at least two rows and one column, all entries finite
ValidX(X) == X.n >= 2 /\ X.d >= 1 /\ AllFinite(X)

\* row i of the result is the projection of row i of X
RowsInOrder ==
  \A i \in 1..arg.n :
    ret.val.v[i] =
      [j \in 1..reducer.n_components |->
         FSum([t \in 1..arg.d |->
                 FMul(FSub(arg.v[i][t], reducer.mean[t]), reducer.components.v[t][j])])]

\* ret is the exception e and no matrix
Fails(e) == ret.kind = "error" /\ ret.err = e /\ ret.val = NoneMat /\ Idle

\* C1: SimplePCA.fit_transform of an X with N >= 2 rows, D >= 1 columns and
\* 1 <= k <= D returns a matrix of exactly N rows and k columns, row i the
\* projection of row i of X.
C1Claim ==
  (ProjectDone /\ ValidX(arg) /\ 1 <= reducer.n_components
     /\ reducer.n_components <= arg.d)
    => /\ ret.kind = "matrix"
       /\ HasShape(ret.val, arg.n, reducer.n_components)
       /\ RowsInOrder

\* the arguments of the running or last embed are valid: N >= 2,
\* 1 <= k <= D, perplexity < N
ValidEmbed ==
  /\ reducer.cls = "tsne"
  /\ ValidX(arg)
  /\ 1 <= reducer.n_components
  /\ reducer.n_components <= arg.d
  /\ reducer.perplexity < arg.n

\* C2: for valid arguments and every budget n_iter >= 0,
\* SimpleTSNE.fit_transform returns a matrix Y of N rows and k columns, and
\* Y has that shape in every state of the call.
C2Claim ==
  ValidEmbed =>
    /\ CallDone => ret.kind = "matrix" /\ HasShape(ret.val, arg.n, reducer.n_components)
    /\ ~Idle => HasShape(fr.Y, arg.n, reducer.n_components)

\* C3: an embed with the X, k, perplexity, n_iter and seed of the reference
\* embed goes through the same frames (beta, P, Y, Y_prev, momentum, the
\* position in the code), as many of them, and ends with the same result,
\* whatever the generator's state and whichever object it is made on.
C3Theorem ==
  (reducer.cls = "tsne" /\ mon.cmp) =>
    /\ ~Idle => /\ mon.pos <= Len(hist.trace)
                /\ Snap(fr) = hist.trace[mon.pos]
    /\ CallDone => ret = hist.ret /\ mon.pos = Len(hist.trace)

\* C3: a second embed of the reference arguments has returned its matrix
\* after at least one iteration, run under another state of the generator.
C3Witness ==
  /\ EmbedDone
  /\ mon.cmp
  /\ op = "return"
  /\ ret.kind = "matrix"
  /\ reducer.n_iter >= 1
  /\ rng # hist.rng
  /\ Len(hist.trace) > reducer.n_iter

\* C4: an embed with perplexity >= N fails with InvalidPerplexity and
\* returns no matrix.
C4Claim ==
  (EmbedDone /\ ValidX(arg) /\ reducer.n_components <= arg.d /\ arg.d >= 2
     /\ reducer.perplexity >= arg.n)
    => Fails("InvalidPerplexity")

C7Claim ==
  /\ (CallDone /\ ValidX(arg) /\ arg.d >= 2 /\ reducer.n_components > arg.d)
       => Fails("InvalidDimensionCount")
  /\ (CallDone /\ ValidX(arg) /\ ret.kind = "matrix")
       => HasShape(ret.val, arg.n, reducer.n_components)

\* C8: an embed the host asked to stop during its loop ends with a
\* Cancelled result, never with Y.
C8Claim == (EmbedDone /\ op = "return" /\ cancel) => ret.kind = "cancelled"

\* C9: a call returns what the same call returns on a fresh object: a
\* project on an object used before gives the result of a new SimplePCA of
\* that n_components, and an embed gives the result of the reference embed
\* of its arguments, the first call on a new object.
C9Theorem ==
  /\ ProjectDone => ret = PcaFitTransform(NewPCA(reducer.n_components), arg).res
  /\ (EmbedDone /\ mon.cmp) => ret = hist.ret

\* C9: a project on an object that had been fitted before has returned a
\* matrix.
C9Witness ==
  /\ ProjectDone
  /\ mon.reused
  /\ op = "return"
  /\ ret.kind = "matrix"
  /\ reducer.mean # NoneVec

\* the steps of constructing a reducer and of running project or embed
OwnSteps ==
  {"init_pca", "init_tsne", "embed", "search", "write", "iterate", "return", "raise"}

C11Theorem == (~Idle \/ CallDone) => embeddings = arg

\* C11: an embed has returned after at least one iteration of its loop,
\* the caller's array as it was.
C11Witness ==
  /\ EmbedDone
  /\ op = "return"
  /\ reducer.n_iter >= 1
  /\ arg.n >= 2
  /\ embeddings = arg

(***************************************************************************)
(* One embed on a SimpleTSNE just constructed, for the properties of       *)
(* _compute_joint_probabilities and of the descent on degenerate data.     *)
(***************************************************************************)

\* two identical rows
XS == FM(<< <<I(1), I(2)>>, <<I(1), I(2)>> >>)

\* three identical rows (0.9, 0.1), whose column means are not computed
\* exactly
XT ==
  FM(<< <<FDiv(I(9), I(10)), FDiv(F1, I(10))>>,
        <<FDiv(I(9), I(10)), FDiv(F1, I(10))>>,
        <<FDiv(I(9), I(10)), FDiv(F1, I(10))>> >>)

\* two points 2^30 apart
XFar == FM(<< <<F0, F0>>, <<FNorm(1, 30), F0>> >>)

OnceInputs == {XA, XB, XS, XT, XFar}

\* n_components = 2 with a perplexity the entropy of two identical
\* neighbours cannot reach, and one it reaches at once; a budget of no
\* iteration
OnceConfigs ==
  {[k |-> 2, perp |-> 1, iters |-> MaxIters, seed |-> 42],
   [k |-> 2, perp |-> 2, iters |-> 1, seed |-> 42],
   [k |-> 2, perp |-> 2, iters |-> 0, seed |-> 42]}

ConstructOnce(c) ==
  /\ reducer.cls = "none"
  /\ ConstructTSNE(c.k, c.perp, c.iters, c.seed)

EmbedOnce(X) ==
  /\ mon.fresh
  /\ EmbedStart(X)

NextOnce ==
  \/ \E c \in OnceConfigs : ConstructOnce(c)
  \/ \E X \in OnceInputs : EmbedOnce(X)
  \/ SearchStep
  \/ WriteStep
  \/ Iterate
  \/ Return

SpecOnce == Init /\ [][NextOnce]_vars

\* a == b as NumPy compares floats: false when either is NaN
FEq(a, b) == ~IsNaN(a) /\ ~IsNaN(b) /\ a = b

\* a >= b as NumPy compares floats: false when either is NaN
FGe(a, b) == ~IsNaN(a) /\ ~IsNaN(b) /\ ~FLt(a, b)

\* _compute_joint_probabilities has returned: the descent holds its P
AffinityDone == fr.pc = "loop"

\* C12: for an X with N >= 2 rows and all entries finite, the P that
\* _compute_joint_probabilities returns is symmetric and every entry of it,
\* the diagonal included, is at least the floor 1e-12.
C12Claim ==
  (AffinityDone /\ ValidX(arg)) =>
    \A i \in 1..fr.P.n : \A j \in 1..fr.P.n :
      /\ FEq(fr.P.v[i][j], fr.P.v[j][i])
      /\ FGe(fr.P.v[i][j], Floor)

\* the rounding allowed in a sum of N * N entries: 16 units in the last
\* place of 1
SumTol == FNorm(1, 4 - Prec)

\* |a - b| <= SumTol; false when either is NaN
Near(a, b) == FGe(SumTol, FAbs(FSub(a, b)))

\* C13: for an X with N >= 2 rows and all entries finite, the entries of the
\* P that _compute_joint_probabilities returns, which the loop uses, sum to
\* 1 over the whole N x N matrix, up to rounding.
C13Claim == (AffinityDone /\ ValidX(arg)) => Near(SumAll(fr.P), F1)

\* |Hdiff| < 1e-5
WithinTol(h) == FLt(FAbs(h), Tol)

\* the search for point fr.i has just ended
SearchEnded == fr.pc = "write"

\* C14: the search for beta of a point ends after at most 50 entropy
\* evaluations, and before the 50th exactly at the first evaluation with
\* |Hdiff| < 1e-5: while it goes on no evaluation has met the tolerance and
\* fewer than 50 were made; when it has ended, either the last evaluation
\* met the tolerance, as one of the first 50, or 50 were made and none did.
C14Theorem ==
  /\ fr.pc = "search" =>
       /\ fr.step < SearchCap
       /\ fr.i \in 1..fr.D.n
       /\ fr.step >= 1 => ~WithinTol(fr.Hdiff)
  /\ SearchEnded =>
       /\ fr.i \in 1..fr.D.n
       /\ IF WithinTol(fr.Hdiff) THEN fr.step + 1 <= SearchCap
          ELSE fr.step = SearchCap

\* the cap ends the search of a row of zero distances whose target is out
\* of reach
C14Witness ==
  /\ SearchEnded
  /\ fr.step = SearchCap
  /\ \A t \in 1..(fr.D.n - 1) : RowWithout(fr.D, fr.i)[t] = F0

\* a call of fit_transform that has begun runs on: the interpreter executes
\* the next pass of its loops, and the return, without waiting for anything
SpecOnceFair ==
  SpecOnce /\ WF_vars(SearchStep \/ WriteStep \/ Iterate \/ Return)

\* the updates of Y match the loop counter, never exceed the budget, and a
\* returned embed has made exactly n_iter of them
BudgetKept ==
  /\ fr.pc = "loop" => mon.updates = fr.it /\ fr.it <= reducer.n_iter
  /\ (EmbedDone /\ op = "return") => mon.updates = reducer.n_iter

\* C15: an embed makes exactly n_iter updates of Y, whatever the data, with
\* no early exit and no extra step, and then returns: every embed that has
\* begun ends with a return.
C15Theorem == [](BudgetKept) /\ (~Idle ~> (Idle /\ op = "return"))

\* an embed of the largest budget has returned after that many updates
C15Witness ==
  /\ EmbedDone
  /\ op = "return"
  /\ reducer.n_iter = MaxIters
  /\ mon.updates = MaxIters
  /\ MaxIters >= 2

\* the constant row vectors c added to the caller's data: two small shifts
\* and one of 2^(Prec + 1), where odd integers are no longer representable
ShiftVecs ==
  {<<I(1), I(1)>>, <<I(5), I(-2)>>, <<FNorm(1, Prec + 1), FNorm(1, Prec + 1)>>}

\* X + c
Translate(X0, c0) ==
  Bind2(LAMBDA X, c :
          Mat(X.n, X.d, [i \in 1..X.n |-> [j \in 1..X.d |-> FAdd(X.v[i][j], c[j])]]),
        X0, c0)

\* X - np.mean(X, axis=0)
Centered(X0) == Bind1(LAMBDA X : SubRow(X, ColMeans(X)), X0)

\* SimplePCA(n_components).fit_transform(arg + c) for the n_components of
\* the call just made
ShiftedResult(c) ==
  PcaFitTransform(NewPCA(reducer.n_components), Translate(arg, c)).res

Perms(n) == {s \in [1..n -> 1..n] : \A a, b \in 1..n : s[a] = s[b] => a = b}

\* what np.linalg.eig returned in the call just made: eigenvalues w and, as
\* column t of v, the eigenvector paired with w[t]
SolverPairs == NpEig(NpCov(Transpose(Centered(arg))))

\* the basis is the first columns of v taken in the order idx, an order of
\* non-increasing eigenvalue
BasisFollows(eig, idx) ==
  /\ \A a, b \in 1..Len(idx) : a < b => ~FLt(eig.w[idx[a]], eig.w[idx[b]])
  /\ \A j \in 1..reducer.components.d :
       /\ Col(reducer.components, j) = Col(eig.v, idx[j])
       /\ \A t \in (reducer.components.d + 1)..Len(idx) :
            ~FGt(eig.w[idx[t]], eig.w[idx[j]])

\* C17: the basis of a projection is the eigenvectors of the largest
\* eigenvalues in order of non-increasing eigenvalue: one permutation orders
\* the eigenvalues and the eigenvectors the solver paired with them, column
\* j of the basis is the eigenvector of the j-th largest eigenvalue, and no
\* eigenvalue left out is larger than one taken.
C17Theorem ==
  (ProjectDone /\ ret.kind = "matrix") =>
    /\ reducer.components.n = arg.d
    /\ reducer.components.d =
         (IF reducer.n_components < arg.d THEN reducer.n_components ELSE arg.d)
    /\ Bind1(LAMBDA eig : \E idx \in Perms(Len(eig.w)) : BasisFollows(eig, idx),
             SolverPairs)

\* a projection on one component whose solver returned the smaller
\* eigenvalue first
C17Witness ==
  /\ ProjectDone
  /\ ret.kind = "matrix"
  /\ reducer.n_components = 1
  /\ FLt(SolverPairs.w[1], SolverPairs.w[2])
  /\ Col(reducer.components, 1) = Col(SolverPairs.v, 2)

(***************************************************************************)
(* The presentation layer: EmbeddingVisualizer.reduce_dimensions and the   *)
(* dashboard's embedding explorer construct the reducer for the embeddings *)
(* they hold and call its fit_transform on them.                           *)
(***************************************************************************)

\* min(30, ...): the largest perplexity the presentation layer passes
PerplexityCap == 30

\* SimpleTSNE.__init__: n_iter=1000, which reduce_dimensions leaves as it is
DefaultIters == 1000

\* the explorer's n_iter=500
ExplorerIters == 500

\* SimpleTSNE.__init__: random_state=42
DefaultSeed == 42

\* min(30, len(embeddings))
HostPerplexityRows(n) == IF PerplexityCap < n THEN PerplexityCap ELSE n

\* min(30, len(embeddings)-1)
HostPerplexity(n) == IF PerplexityCap < n - 1 THEN PerplexityCap ELSE n - 1

\* n rows of one column
Rows(n) == Mat(n, 1, [i \in 1..n |-> <<I(i)>>])

\* the embeddings the host holds: none, one, two, three, and row counts
\* around and above the cap
HostInputs == {XNone, XOne, XB, XA, Rows(30), Rows(31), Rows(32), Rows(40)}

\* the host has its embeddings and has reduced nothing yet
HostLoad(X) ==
  /\ op = "start"
  /\ embeddings' = X
  /\ op' = "load"
  /\ UNCHANGED <<reducer, rng, out, cancel, fr, arg, ret, trace, hist, mon>>

\* reduce_dimensions(embeddings, method, n_components) up to its call of
\* fit_transform
ReduceDimensions(method, n_components) ==
  /\ op = "load"
  /\ IF method = "pca" THEN ConstructPCA(n_components)
     ELSE ConstructTSNE(n_components, HostPerplexity(embeddings.n),
                        DefaultIters, DefaultSeed)

\* the explorer's "Generate Interactive View" up to its call of
\* fit_transform
Explorer(method) ==
  /\ op = "load"
  /\ IF method = "PCA" THEN ConstructPCA(2)
     ELSE ConstructTSNE(2, HostPerplexity(embeddings.n), ExplorerIters, DefaultSeed)

\* reduced = reducer.fit_transform(embeddings)
HostFit ==
  /\ mon.fresh
  /\ \/ Project(embeddings)
     \/ EmbedStart(embeddings)

NextHost ==
  \/ \E X \in HostInputs : HostLoad(X)
  \/ \E method \in {"pca", "tsne"} : ReduceDimensions(method, 2)
  \/ \E method \in {"PCA", "t-SNE"} : Explorer(method)
  \/ HostFit
  \/ SearchStep
  \/ WriteStep
  \/ Iterate
  \/ Return

SpecHost == Init /\ [][NextHost]_vars

\* C18: whenever the presentation layer has selected t-SNE, the perplexity
\* of the reducer it constructed for its N rows is min(30, N - 1): at most
\* 30 and less than N.
C18Theorem ==
  reducer.cls = "tsne" =>
    /\ reducer.perplexity = (IF embeddings.n - 1 < 30 THEN embeddings.n - 1 ELSE 30)
    /\ reducer.perplexity <= 30
    /\ reducer.perplexity < embeddings.n

\* t-SNE selected for more than 31 rows: the cap applies
C18Witness ==
  /\ op = "init_tsne"
  /\ embeddings.n > 31
  /\ reducer.perplexity = 30

\* X has at least two rows and they are all the same
IdenticalRows(X) == X.n >= 2 /\ \A i \in 1..X.n : X.v[i] = X.v[1]

\* an embed of identical rows with perplexity < N is running or has ended
IdenticalCase ==
  /\ reducer.cls = "tsne"
  /\ IdenticalRows(arg)
  /\ reducer.perplexity < arg.n
  /\ AllFinite(arg)

\* the layout of the running embed, or the one the embed just ended returned
Layout == IF Idle THEN ret.val ELSE fr.Y

\* the layout at initialization: the warm start times 0.0001
InitialLayout == MatScale(WarmStart(reducer, arg).val, InitScale)

\* C19 as stated: for identical rows embed raises no error and every row of
\* Y is zero at initialization, after every iteration and in the result.
C19Claim ==
  IdenticalCase =>
    /\ op # "raise"
    /\ Layout = Zeros(arg.n, reducer.n_components)

\* C19: for identical rows embed raises no error, and at initialization,
\* after every iteration and in the result the rows of Y are all the same
\* row, the one the warm start gave them: the layout is never moved; the
\* row is zero when the data minus their column means are zero.
C19Theorem ==
  IdenticalCase =>
    /\ op # "raise"
    /\ \A i \in 1..Layout.n : Layout.v[i] = Layout.v[1]
    /\ Layout = InitialLayout
    /\ Centered(arg) = Zeros(arg.n, arg.d) => Layout = Zeros(arg.n, reducer.n_components)

\* an embed of three identical rows has returned, after two iterations, the
\* non-zero rows it began with
C19Witness ==
  /\ IdenticalCase
  /\ op = "return"
  /\ arg.n = 3
  /\ mon.updates >= 2
  /\ Layout # Zeros(arg.n, reducer.n_components)
  /\ Layout = InitialLayout

(***************************************************************************)
(* One embed with a longer budget, for the course of the divergence        *)
(* between P and Q over the iterations.                                    *)
(***************************************************************************)

\* the budget of the long embed
DescentIters == 52

\* the iterations taken as "the first few"
FewIters == 10

\* four points, near the corners of a square
XQ == FM(<< <<I(23), I(4)>>, <<I(25), I(25)>>, <<I(26), I(0)>>, <<I(5), I(23)>> >>)

\* five points in three groups
XFive ==
  FM(<< <<I(24), I(25)>>, <<I(25), I(0)>>, <<I(6), I(5)>>, <<I(20), I(2)>>,
        <<I(3), I(1)>> >>)

DescentInputs == {XQ, XFive}

\* sum of P[i][j] * log(P[i][j] / Q[i][j]) for the Q of the layout Y, as the
\* loop computes Q (lines 87-91)
Divergence(P0, Y0) ==
  Bind2(LAMBDA P, Q :
          FSum([t \in 1..(P.n * P.n) |->
                  Bind2(LAMBDA p, q : FMul(p, FLog(FDiv(p, q))),
                        P.v[((t - 1) \div P.n) + 1][((t - 1) % P.n) + 1],
                        Q.v[((t - 1) \div P.n) + 1][((t - 1) % P.n) + 1])]),
        P0, QMatrix(Num(Y0)))

ConstructDescent ==
  /\ reducer.cls = "none"
  /\ ConstructTSNE(2, 1, DescentIters, DefaultSeed)

EmbedDescent(X) ==
  /\ mon.fresh
  /\ EmbedStart(X)

NextDescent ==
  \/ ConstructDescent
  \/ \E X \in DescentInputs : EmbedDescent(X)
  \/ SearchStep
  \/ WriteStep
  \/ Iterate
  \/ Return

SpecDescent == Init /\ [][NextDescent]_vars

\* a rise of the divergence taken as rounding, not as an increase
DivergenceSlack == FDiv(F1, I(20))

\* the layouts after m iterations, FewIters <= m < n, that the embed now
\* after n iterations went through: each is what a budget of m returns
EarlierLayouts ==
  {trace[t].Y : t \in {u \in 1..Len(trace) :
                         /\ trace[u].pc = "loop"
                         /\ trace[u].it >= FewIters
                         /\ trace[u].it < fr.it}}

\* C20: past the first few iterations more iterations do not increase the
\* divergence between P and Q: the divergence of the layout after n
\* iterations is not larger than that of the layout after m iterations, for
\* every m < n past the first few.
C20Claim ==
  (fr.pc = "loop" /\ fr.it > FewIters) =>
    Bind1(LAMBDA now :
            \A Y \in EarlierLayouts :
              ~FGt(now, FAdd(Divergence(fr.P, Y), DivergenceSlack)),
          Divergence(fr.P, fr.Y))

\* the step just taken was a pass of the search for point fr.i that did not
\* meet the tolerance and so updated beta and a bound
BetaUpdated ==
  /\ fr.pc = "search"
  /\ fr'.pc \in {"search", "write"}
  /\ fr'.i = fr.i
  /\ fr'.step = fr.step + 1

\* the search for a point begins with beta 1 and no bound
SearchBegins ==
  (fr.pc = "search" /\ fr.step = 0) =>
    /\ fr.beta[fr.i] = F1
    /\ fr.beta_min = NInf
    /\ fr.beta_max = PInf

\* the update of beta and its bounds after the evaluation that gave
\* fr'.Hdiff
BracketRule ==
  BetaUpdated =>
    /\ FGt(fr'.Hdiff, F0) =>
         /\ fr'.beta_min = fr.beta[fr.i]
         /\ fr'.beta_max = fr.beta_max
         /\ fr'.beta[fr.i] =
              (IF fr.beta_max = PInf THEN FMul(fr.beta[fr.i], F2)
               ELSE FDiv(FAdd(fr.beta[fr.i], fr.beta_max), F2))
    /\ FLt(fr'.Hdiff, F0) =>
         /\ fr'.beta_max = fr.beta[fr.i]
         /\ fr'.beta_min = fr.beta_min
         /\ fr'.beta[fr.i] =
              (IF fr.beta_min = NInf THEN FDiv(fr.beta[fr.i], F2)
               ELSE FDiv(FAdd(fr.beta[fr.i], fr.beta_min), F2))
    /\ (IsFinite(fr.beta_min) /\ IsFinite(fr.beta_max)) =>
         /\ IsFinite(fr'.beta_min) /\ IsFinite(fr'.beta_max)
         /\ fr'.beta[fr.i] \in {FDiv(FAdd(fr.beta[fr.i], fr.beta_max), F2),
                                FDiv(FAdd(fr.beta[fr.i], fr.beta_min), F2)}
    /\ \A t \in 1..Len(fr.beta) : t # fr.i => fr'.beta[t] = fr.beta[t]

\* C21: the search for a point starts at beta 1 with no bound; an entropy
\* above the target makes beta the lower bound and doubles beta while there
\* is no upper bound, else moves it to the midpoint with the upper bound; an
\* entropy below the target makes beta the upper bound and halves beta while
\* there is no lower bound, else moves it to the midpoint with the lower
\* bound; once both bounds are finite every step is a bisection.
C21Theorem == [](SearchBegins) /\ [][BracketRule]_vars

\* a search has bisected: both bounds are finite and beta lies strictly
\* between them
C21Witness ==
  /\ fr.pc = "search"
  /\ IsFinite(fr.beta_min)
  /\ IsFinite(fr.beta_max)
  /\ FLt(fr.beta_min, fr.beta[fr.i])
  /\ FLt(fr.beta[fr.i], fr.beta_max)

\* the corners of the unit square: at beta 1 the entropy of a row is above
\* the target of perplexity 2
XUnit == FM(<< <<I(0), I(0)>>, <<I(1), I(0)>>, <<I(0), I(1)>>, <<I(1), I(1)>> >>)

\* three points 2^24 and 2^25 apart: two neighbours cannot reach perplexity
\* 2, beta is halved at every step, and at 2^-49 and 2^-50 the squared
\* distances 2^48 and more still tell the neighbours apart
XWide == FM(<< <<F0, F0>>, <<FNorm(1, 24), F0>>, <<F0, FNorm(1, 25)>> >>)

\* four and five points per embed, so that a row has more neighbours than
\* the perplexity and the search brackets beta from both sides, and three
\* points whose search uses all its steps
SearchInputs == {XUnit, XQ, XFive, XWide}

ConstructSearch ==
  /\ reducer.cls = "none"
  /\ ConstructTSNE(2, 2, 1, DefaultSeed)

EmbedSearch(X) ==
  /\ mon.fresh
  /\ EmbedStart(X)

NextSearch ==
  \/ ConstructSearch
  \/ \E X \in SearchInputs : EmbedSearch(X)
  \/ SearchStep
  \/ WriteStep
  \/ Iterate
  \/ Return

SpecSearch == Init /\ [][NextSearch]_vars

\* the conditional probabilities of a row with distances Di at beta:
\* exp(-Di * beta) / sum(exp(-Di * beta))
RowAt(Di, beta) ==
  Bind1(LAMBDA e : Bind1(LAMBDA s : [t \in 1..Len(e) |-> FDiv(e[t], s)], FSum(e)),
        ExpD(Di, beta))

\* the search for point fr.i - 1 took all its steps without meeting the
\* tolerance and its row has just been written; the recorded frames before
\* this one are the write (last) and the search state the last evaluation
\* started from (last but one)
CapRowWritten ==
  /\ fr.pc = "search"
  /\ fr.step = 0
  /\ Len(trace) >= 3
  /\ trace[Len(trace) - 1].pc = "write"
  /\ trace[Len(trace) - 1].step = SearchCap
  /\ trace[Len(trace) - 2].pc = "search"

\* beta of point fr.i - 1 before the update that follows the last evaluation
BetaEvaluatedLast == trace[Len(trace) - 2].beta[fr.i - 1]

\* C22 as stated: after a search that used all 50 steps the row written is
\* the one computed with the value beta_i holds when the search ends
C22Claim ==
  CapRowWritten =>
    RowWithout(fr.P, fr.i - 1) =
      RowAt(RowWithout(fr.D, fr.i - 1), fr.beta[fr.i - 1])

\* C22: after a search that used all 50 steps no error is raised and the row
\* written is the one computed in the 50th evaluation, with the value beta_i
\* had before the update that follows that evaluation
C22Theorem ==
  CapRowWritten =>
    /\ ret = NoResult
    /\ op = "write"
    /\ RowWithout(fr.P, fr.i - 1) =
         RowAt(RowWithout(fr.D, fr.i - 1), BetaEvaluatedLast)

\* a row was written after 50 steps, beta was moved by the last update and
\* the two values of beta give different rows
C22Witness ==
  /\ CapRowWritten
  /\ fr.beta[fr.i - 1] # BetaEvaluatedLast
  /\ AllFinite(fr.P)
  /\ RowAt(RowWithout(fr.D, fr.i - 1), fr.beta[fr.i - 1]) #
       RowAt(RowWithout(fr.D, fr.i - 1), BetaEvaluatedLast)

\* the step just taken was a pass of the descent loop
LoopPass == fr.pc = "loop" /\ fr'.pc = "loop"

\* C23 as stated, with the fraction a run of the default budget shows (the
\* switch after SwitchIter + 1 of DefaultIters iterations): after it
\* iterations of a budget n_iter the momentum is the higher one exactly when
\* it / n_iter is above that fraction
C23Claim ==
  fr.pc = "loop" =>
    (fr.momentum = MomentumHigh <=>
       fr.it * DefaultIters > (SwitchIter + 1) * reducer.n_iter)

\* C23: the momentum changes in the pass with index 250 and in no other,
\* whatever the budget: the switch is at a fixed iteration, not at a
\* fraction of n_iter
C23Theorem ==
  [][LoopPass =>
       /\ (fr'.momentum # fr.momentum) <=> (fr.it = SwitchIter)
       /\ fr.it = SwitchIter =>
            fr.momentum = MomentumLow /\ fr'.momentum = MomentumHigh]_vars

\* the switch has just happened in a run of the explorer's budget, half the
\* default one
C23Witness ==
  /\ fr.pc = "loop"
  /\ reducer.n_iter = ExplorerIters
  /\ fr.it = SwitchIter + 1
  /\ fr.momentum = MomentumHigh

\* momentum * velocity - lr * gradient, entry by entry, for the layout Y and
\* the affinities P
VelocityFrom(momentum, velocity, P, Y) ==
  Bind1(LAMBDA grad :
          [a \in 1..Y.n |-> [b \in 1..Y.d |->
             FSub(FMul(momentum, velocity.v[a][b]),
                  FMul(FromInt(LearningRate), grad.v[a][b]))]],
        Gradient(P, Y))

\* the velocity is zero when the loop is entered
VelocityStartsAtZero ==
  (fr.pc = "loop" /\ fr.it = 0) =>
    \A a \in 1..fr.Y.n : \A b \in 1..fr.Y.d : fr.Y_prev.v[a][b] = F0

\* one pass: the new velocity from the momentum, the old velocity and the
\* gradient at the old Y; Y moved by the new velocity
VelocityRule ==
  LoopPass =>
    /\ fr'.Y_prev.v = VelocityFrom(fr.momentum, fr.Y_prev, fr.P, fr.Y)
    /\ \A a \in 1..fr.Y.n : \A b \in 1..fr.Y.d :
         fr'.Y.v[a][b] = FAdd(fr.Y.v[a][b], fr'.Y_prev.v[a][b])
    /\ fr'.P = fr.P

\* C24: the velocity is zero before the first iteration; in every iteration
\* the velocity becomes momentum * velocity - lr * gradient with the constant
\* learning rate lr = 200, Y becomes Y + velocity, and the velocity stored is
\* the update just applied to Y.
C24Theorem == [](VelocityStartsAtZero) /\ [][VelocityRule]_vars

\* past the switch of the momentum, with a velocity that is finite and not
\* zero
C24Witness ==
  /\ fr.pc = "loop"
  /\ fr.it > SwitchIter + 1
  /\ fr.momentum = MomentumHigh
  /\ AllFinite(fr.Y_prev)
  /\ \E a \in 1..fr.Y.n : \E b \in 1..fr.Y.d : fr.Y_prev.v[a][b] # F0

\* the messages printed after it iterations: 100, 200, ... up to it
MessagesAfter(it) == [t \in 1..(it \div ProgressEvery) |-> t * ProgressEvery]

\* in the loop the messages printed are those of the iterations done, and
\* the iterations done are the updates of Y done; after the return they are
\* those of the whole budget
MessagesKept ==
  /\ fr.pc = "loop" => (out = MessagesAfter(fr.it) /\ mon.updates = fr.it)
  /\ (reducer.cls = "tsne" /\ op = "return") =>
       (out = MessagesAfter(reducer.n_iter)
        /\ Len(out) = reducer.n_iter \div ProgressEvery)

\* a message is printed by a pass of the loop only, after the update of that
\* pass, and the pass leaves Y, the velocity and the momentum as a pass
\* without a message does
MessageRule ==
  out' # out /\ fr.pc = "loop" =>
    /\ LoopPass
    /\ fr'.it % ProgressEvery = 0
    /\ out' = Append(out, fr'.it)
    /\ mon'.updates = fr'.it
    /\ fr'.Y = MatAdd(fr.Y, fr'.Y_prev)
    /\ fr'.Y_prev = YUpdate(fr.momentum, fr.Y_prev, Gradient(fr.P, fr.Y))
    /\ fr'.momentum = IF fr.it = SwitchIter THEN MomentumHigh ELSE fr.momentum

\* C25: embed prints a progress message exactly after each iteration whose
\* 1-based number is a multiple of 100, after that iteration's update of Y:
\* n_iter iterations print floor(n_iter / 100) messages with the counts 100,
\* 200, ..., and printing changes neither Y, the velocity nor the momentum.
C25Theorem == [](MessagesKept) /\ [][MessageRule]_vars

\* the default budget has returned with its ten messages
C25Witness ==
  /\ reducer.cls = "tsne"
  /\ op = "return"
  /\ reducer.n_iter = DefaultIters
  /\ Len(out) = 10
  /\ out[10] = DefaultIters

\* the output of project(arg, k) by a new projector, each entry times 1e-4
ScaledProjection ==
  Bind1(LAMBDA p :
          [a \in 1..p.val.n |-> [b \in 1..p.val.d |->
             FMul(p.val.v[a][b], FDiv(F1, FromInt(10000)))]],
        PcaFitTransform(NewPCA(reducer.n_components), arg).res)

\* no iteration of the running embed has updated Y yet
BeforeFirstIteration ==
  \/ fr.pc \in {"search", "write"}
  \/ fr.pc = "loop" /\ fr.it = 0

\* an embed with a budget of 0 has returned
ZeroBudgetReturned ==
  /\ reducer.cls = "tsne"
  /\ reducer.n_iter = 0
  /\ op = "return"

\* C26: before the first optimization iteration Y is the output of
\* project(X, k) times 1e-4, and an embed with a budget of 0 returns exactly
\* that layout.
C26Theorem ==
  /\ BeforeFirstIteration => fr.Y.v = ScaledProjection
  /\ ZeroBudgetReturned => (ret.kind = "matrix" /\ ret.val.v = ScaledProjection)

\* a budget of 0 has returned a finite layout that is not zero
C26Witness ==
  /\ ZeroBudgetReturned
  /\ ret.kind = "matrix"
  /\ AllFinite(ret.val)
  /\ \E a \in 1..ret.val.n : \E b \in 1..ret.val.d : ret.val.v[a][b] # F0

\* a project call has returned its output coordinates
ProjectReturned == ProjectDone /\ op = "return"

FLe(a, b) == ~IsNaN(a) /\ ~IsNaN(b) /\ ~FLt(b, a)

\* the search for point fr.i is under way or has just ended
InSearch == fr.pc \in {"search", "write"}

\* beta is positive and inside its bounds
BracketHolds ==
  InSearch =>
    /\ FGt(fr.beta[fr.i], F0)
    /\ FLe(fr.beta_min, fr.beta[fr.i])
    /\ FLe(fr.beta[fr.i], fr.beta_max)

\* a step of the search for one point never lowers the lower bound nor
\* raises the upper bound
BracketNarrows ==
  (fr.pc = "search" /\ fr'.pc \in {"search", "write"} /\ fr'.i = fr.i) =>
    /\ FLe(fr.beta_min, fr'.beta_min)
    /\ FLe(fr'.beta_max, fr.beta_max)

\* C28: in every state of the search for beta_i, beta_i is strictly
\* positive, the lower bound is not above beta_i, the upper bound is not
\* below it, and from one step to the next the lower bound never decreases
\* and the upper bound never increases.
C28Theorem == [](BracketHolds) /\ [][BracketNarrows]_vars

\* the bisection has closed the bracket onto beta: a finite bound equal to
\* beta, the other finite too
C28Witness ==
  /\ fr.pc = "search"
  /\ fr.step > 0
  /\ IsFinite(fr.beta_min)
  /\ IsFinite(fr.beta_max)
  /\ (fr.beta_min = fr.beta[fr.i] \/ fr.beta_max = fr.beta[fr.i])

\* the momentum the next update uses, by the number of updates done: 0.5
\* for the updates with index 0 to 250, 0.8 for the later ones
MomentumByCount ==
  fr.pc = "loop" =>
    fr.momentum = (IF fr.it <= SwitchIter THEN FDiv(FromInt(1), FromInt(2))
                   ELSE FDiv(FromInt(4), FromInt(5)))

\* a pass of the loop never takes the momentum from 0.8 to another value
MomentumStays ==
  (LoopPass /\ fr.momentum = FDiv(FromInt(4), FromInt(5))) =>
    fr'.momentum = fr.momentum

DefaultMaxIter == 100

\* SimpleKMeans.__init__: self.centroids does not exist before fit_predict
NewKMeans(n_clusters, max_iter, random_state) ==
  [cls |-> "kmeans", n_clusters |-> n_clusters, max_iter |-> max_iter,
   random_state |-> random_state, centroids |-> NoneMat]

\* the generator after a draw: the initial state of no seed
Drawn(r) == 0 - 1 - Abs(r)

\* what np.random.choice(n, k, replace=False) can return: k distinct
\* indices in some order (which one depends on the generator's state)
Selections(n, k) ==
  {s \in [1..k -> 1..n] : \A a \in 1..k : \A b \in 1..k : a # b => s[a] # s[b]}

\* X[indices].copy()
RowsAt(X, indices) ==
  Mat(Len(indices), X.d, [t \in 1..Len(indices) |-> X.v[indices[t]]])

\* np.sqrt(((x - c) ** 2).sum()) for a row x and a centroid c
Distance(x, c) ==
  FSqrt(FSum([j \in 1..Len(x) |->
                Bind1(LAMBDA d : FMul(d, d), FSub(x[j], c[j]))]))

\* np.argmin of a row of distances, counted from 1: the first NaN if there
\* is one, else the first smallest entry
Argmin(row) ==
  Bind1(LAMBDA S : CHOOSE k \in S : \A j \in S : k <= j,
        IF \E k \in 1..Len(row) : IsNaN(row[k])
          THEN {k \in 1..Len(row) : IsNaN(row[k])}
          ELSE {k \in 1..Len(row) : \A j \in 1..Len(row) : ~FLt(row[j], row[k])})

\* distances = ...; labels = np.argmin(distances, axis=1)
Labels(X, centroids) ==
  [i \in 1..X.n |->
     Argmin([k \in 1..centroids.n |-> Distance(X.v[i], centroids.v[k])]) - 1]

\* X[labels == k].mean(axis=0): NaN in every column when no point has the
\* label k
ClusterMean(X, labels, k) ==
  Bind1(LAMBDA members :
          [j \in 1..X.d |->
             IF Len(members) = 0 THEN NaN
             ELSE FDiv(FSum([t \in 1..Len(members) |-> X.v[members[t]][j]]),
                       FromInt(Len(members)))],
        SelectSeq([i \in 1..X.n |-> i], LAMBDA i : labels[i] = k))

\* new_centroids = np.array([X[labels == k].mean(axis=0) for k in range(K)])
NewCentroids(X, labels, n_clusters) ==
  Mat(n_clusters, X.d, [k \in 1..n_clusters |-> ClusterMean(X, labels, k - 1)])

\* np.isclose(a, b) with rtol = 1e-5, atol = 1e-8: false for NaN
IsClose(a, b) ==
  IF IsNaN(a) \/ IsNaN(b) THEN FALSE
  ELSE IF IsInf(a) \/ IsInf(b) THEN a = b
  ELSE ~FLt(FAdd(FDiv(F1, FromInt(100000000)),
                 FMul(FDiv(F1, FromInt(100000)), FAbs(b))),
            FAbs(FSub(a, b)))

\* np.allclose(a, b)
AllClose(A, B) ==
  \A i \in 1..A.n : \A j \in 1..A.d : IsClose(A.v[i][j], B.v[i][j])

\* kmeans = SimpleKMeans(n_clusters, max_iter, random_state)
ConstructKMeans(n_clusters, max_iter, random_state) ==
  /\ Idle
  /\ reducer.cls = "none"
  /\ reducer' = NewKMeans(n_clusters, max_iter, random_state)
  /\ rng' = random_state
  /\ op' = "init_kmeans"
  /\ hist' = NoHist
  /\ mon' = [NoMon EXCEPT !.fresh = TRUE]
  /\ UNCHANGED <<out, cancel, fr, embeddings, arg, ret, trace>>

\* the frame of fit_predict before pass it of its loop; labels is unbound
\* (<<>>) before the first pass
KMeansFrame(pc, it, labels) == [pc |-> pc, it |-> it, labels |-> labels]

\* kmeans.fit_predict(X) up to the loop: np.random.choice raises ValueError
\* for more clusters than rows; with max_iter = 0 the loop is skipped and
\* "return labels" raises UnboundLocalError
FitPredict(X) ==
  /\ Idle
  /\ reducer.cls = "kmeans"
  /\ mon.fresh
  /\ arg' = X
  /\ embeddings' = X
  /\ mon' = [mon EXCEPT !.fresh = FALSE]
  /\ IF reducer.n_clusters > X.n
       THEN /\ ret' = Raised("ValueError")
            /\ op' = "raise"
            /\ UNCHANGED <<reducer, rng, fr>>
       ELSE /\ \E indices \in Selections(X.n, reducer.n_clusters) :
                 reducer' = [reducer EXCEPT !.centroids = RowsAt(X, indices)]
            /\ rng' = Drawn(rng)
            /\ IF reducer.max_iter = 0
                 THEN /\ ret' = Raised("UnboundLocalError")
                      /\ op' = "raise"
                      /\ fr' = fr
                 ELSE /\ ret' = NoResult
                      /\ op' = "fit_predict"
                      /\ fr' = KMeansFrame("kmeans", 0, <<>>)
  /\ UNCHANGED <<out, cancel, trace, hist>>

\* one pass of "for _ in range(self.max_iter)": the labels from the
\* centroids stored, the means of the labelled points, the break when the
\* means are close to the centroids, else the means stored
KMeansPass ==
  /\ fr.pc = "kmeans"
  /\ fr.it < reducer.max_iter
  /\ LET labels == Labels(arg, reducer.centroids)
         new_centroids == NewCentroids(arg, labels, reducer.n_clusters)
     IN IF AllClose(reducer.centroids, new_centroids)
          THEN /\ fr' = KMeansFrame("kmeans_end", fr.it, labels)
               /\ reducer' = reducer
          ELSE /\ fr' = KMeansFrame(IF fr.it + 1 = reducer.max_iter
                                      THEN "kmeans_end" ELSE "kmeans",
                                    fr.it + 1, labels)
               /\ reducer' = [reducer EXCEPT !.centroids = new_centroids]
  /\ op' = "kmeans_pass"
  /\ UNCHANGED <<rng, out, cancel, embeddings, arg, ret, trace, hist, mon>>

\* return labels
KMeansReturn ==
  /\ fr.pc = "kmeans_end"
  /\ ret' = [kind |-> "labels", val |-> fr.labels, err |-> ""]
  /\ fr' = IdleFrame
  /\ op' = "return"
  /\ UNCHANGED <<reducer, rng, out, cancel, embeddings, arg, trace, hist, mon>>

\* four points on a line: 2, 0, 10, 1
KLine == FM(<< <<I(2)>>, <<I(0)>>, <<I(10)>>, <<I(1)>> >>)

\* two equal rows and a third
KTwin == FM(<< <<I(0), I(0)>>, <<I(0), I(0)>>, <<I(4), I(0)>> >>)

KMeansInputs == {KLine, KTwin, XA, XOne}

\* one pass, two, and the default
KMeansBudgets == {0, 1, 2, DefaultMaxIter}

NextKMeans ==
  \/ \E k \in {2, 3} : \E m \in KMeansBudgets : ConstructKMeans(k, m, DefaultSeed)
  \/ \E X \in KMeansInputs : FitPredict(X)
  \/ KMeansPass
  \/ KMeansReturn

SpecKMeans == Init /\ [][NextKMeans]_vars

\* fit_predict has returned its labels
KMeansReturned == reducer.cls = "kmeans" /\ op = "return"

\* C30: when fit_predict returns, the label of every point is the index of
\* a centroid nearest to the point among the centroids stored in
\* self.centroids: no stored centroid is nearer to the point than the one
\* of its label.
C30Claim ==
  KMeansReturned =>
    \A i \in 1..arg.n : \A k \in 1..reducer.centroids.n :
      ~FLt(Distance(arg.v[i], reducer.centroids.v[k]),
           Distance(arg.v[i], reducer.centroids.v[ret.val[i] + 1]))

=============================================================================
